---- MODULE Spec2Model ----
(***************************************************************************)
(* A model of the finite-state-machine engine of transition.go: the        *)
(* definition API (Initial, State, Event, To, From, Before, After, Enter,  *)
(* Exit) and the Trigger algorithm, one step per hook invocation.          *)
(*                                                                         *)
(* Hooks are caller-supplied closures.  A hook is named by the ordinal it  *)
(* got when it was appended to its list; what it returns (nil or its own   *)
(* error) is chosen afresh at every invocation.  Hooks do not write the    *)
(* entity's state: Trigger is the only writer while a call is in progress. *)
(***************************************************************************)
EXTENDS Integers, Sequences, FiniteSets, TLC

\* ---------------------------------------------------------------- bounds

\* Longest hook list (enters, exits, befores, afters) the model registers.
MaxHooks == 2

\* Most hooks registered in the whole machine.
MaxTotalHooks == 3

\* Most names passed to one From(...) call.
MaxFromArgs == 2

\* Longest hook list of the machines on which two callers run Trigger at once.
MaxConcurrentHooks == 1

\* State names used in registrations and as entity states.
StateNames == {"draft", "checkout"}

\* Names Initial(...) is called with.
InitialNames == {"draft"}

\* Event names that get registered, and the names Trigger is called with.
EventNames == {"checkout"}
TriggerNames == EventNames \cup {"shipIt"}

\* Callers of Trigger; Spec runs caller 1 only, one call at a time.
Callers == {1, 2}
SeqCallers == {1}

VARIABLES
    initialState,   \* StateMachine.initialState
    states,         \* StateMachine.states: name -> State
    events,         \* StateMachine.events: name -> Event.transitions (to -> EventTransition)
    entity,         \* Transition.State of the entity passed to Trigger
    call            \* per caller: the position and locals of its Trigger call

vars == <<initialState, states, events, entity, call>>

\* ------------------------------------------------------------ data shapes

\* A fresh State: no hooks.
NewState == [enters |-> <<>>, exits |-> <<>>]

\* A fresh EventTransition for destination `name`.
NewTransition(name) == [to |-> name, froms |-> <<>>, befores |-> <<>>, afters |-> <<>>]

\* error values: nil, the engine's own error, a hook's error
Nil == [type |-> "nil", name |-> "", state |-> "", n |-> 0]

\* Variant: the fall-through at the end of Trigger returns nil.
PerformErrorIsNil(name, stateWas) == Nil

PerformError(name, stateWas) ==
    [type |-> "perform", name |-> name, state |-> stateWas, n |-> 0]

\* Variant: a hook's error is replaced by the engine's own error.
HookErrorAsPerform(kind, owner, n) ==
    [type |-> "perform", name |-> owner, state |-> "", n |-> 0]

\* The error hook number n of list `kind` of `owner` returns when it fails.
HookError(kind, owner, n) == [type |-> kind, name |-> owner, state |-> "", n |-> n]

IdleCall ==
    [pc |-> "idle", name |-> "", stateWas |-> "", to |-> "", idx |-> 0,
     matched |-> {}, ret |-> Nil, pre |-> "", log |-> <<>>]

\* A log entry: a hook invocation (op is its list, h its ordinal, ok whether
\* it returned nil) or a SetState (op = "set", saw the state before, val after).
HookEntry(kind, owner, h, ok) ==
    [op |-> kind, owner |-> owner, h |-> h, saw |-> entity, val |-> entity, ok |-> ok]

SetEntry(val) ==
    [op |-> "set", owner |-> "", h |-> 0, saw |-> entity, val |-> val, ok |-> TRUE]

\* ------------------------------------------------------------- helpers

\* Every registered hook, as <<list kind, owner, destination, ordinal>>.
StateHooks ==
    UNION {{<<"enter", s, "", i>> : i \in 1..Len(states[s].enters)} \cup
           {<<"exit", s, "", i>> : i \in 1..Len(states[s].exits)} : s \in DOMAIN states}

TransitionHooks ==
    UNION {UNION {{<<"before", e, t, i>> : i \in 1..Len(events[e][t].befores)} \cup
                  {<<"after", e, t, i>> : i \in 1..Len(events[e][t].afters)}
                  : t \in DOMAIN events[e]} : e \in DOMAIN events}

TotalHooks == Cardinality(StateHooks) + Cardinality(TransitionHooks)

CanAddHook(list) == Len(list) < MaxHooks /\ TotalHooks < MaxTotalHooks

\* Variant: a registration puts the new hook in front of the list.
PrependHook(list) == <<Len(list) + 1>> \o list

\* The hook a registration appends: named by its ordinal in the list.
AppendHook(list) == Append(list, Len(list) + 1)

Idle == \A c \in Callers : call[c].pc = "idle"

SeqsUpTo(S, n) == UNION {[1..k -> S] : k \in 0..n}

\* The argument lists From(...) is called with.
FromArgs == SeqsUpTo(StateNames, MaxFromArgs)

\* ------------------------------------------------------ definition API

\* removeDuplicateValues: keep the first occurrence of every entry.
RECURSIVE removeDuplicateValues(_)
removeDuplicateValues(slice) ==
    IF slice = <<>> THEN <<>>
    ELSE LET n    == Len(slice)
             init == removeDuplicateValues(SubSeq(slice, 1, n - 1))
         IN  IF \E i \in 1..Len(init) : init[i] = slice[n]
             THEN init
             ELSE Append(init, slice[n])

Initial(name) ==
    /\ Idle
    /\ initialState' = name
    /\ UNCHANGED <<states, events, entity, call>>

\* Variant: State always stores a fresh State under the name.
StatesAfterStateFresh(name) ==
    [s \in DOMAIN states \cup {name} |-> IF s = name THEN NewState ELSE states[s]]

StatesAfterState(name) ==
    IF name \in DOMAIN states THEN states ELSE states @@ (name :> NewState)

State(name) ==
    /\ Idle
    /\ states' = StatesAfterState(name)
    /\ UNCHANGED <<initialState, events, entity, call>>

EventsAfterEvent(name) ==
    IF name \in DOMAIN events THEN events ELSE events @@ (name :> <<>>)

Event(name) ==
    /\ Idle
    /\ events' = EventsAfterEvent(name)
    /\ UNCHANGED <<initialState, states, entity, call>>

Enter(name) ==
    /\ Idle
    /\ name \in DOMAIN states
    /\ CanAddHook(states[name].enters)
    /\ states' = [states EXCEPT ![name].enters = AppendHook(@)]
    /\ UNCHANGED <<initialState, events, entity, call>>

Exit(name) ==
    /\ Idle
    /\ name \in DOMAIN states
    /\ CanAddHook(states[name].exits)
    /\ states' = [states EXCEPT ![name].exits = AppendHook(@)]
    /\ UNCHANGED <<initialState, events, entity, call>>

\* Variant: To always stores a fresh transition under the destination.
TransitionsAfterToFresh(transitions, name) ==
    [t \in DOMAIN transitions \cup {name} |->
        IF t = name THEN NewTransition(name) ELSE transitions[t]]

TransitionsAfterTo(transitions, name) ==
    IF name \in DOMAIN transitions
    THEN transitions
    ELSE transitions @@ (name :> NewTransition(name))

To(e, name) ==
    /\ Idle
    /\ e \in DOMAIN events
    /\ events' = [events EXCEPT ![e] = TransitionsAfterTo(@, name)]
    /\ UNCHANGED <<initialState, states, entity, call>>

\* Variant: From replaces the froms by the names of this call.
FromsAfterFromOverwrite(froms, args) == args

FromsAfterFrom(froms, args) == removeDuplicateValues(froms \o args)

From(e, t, args) ==
    /\ Idle
    /\ e \in DOMAIN events
    /\ t \in DOMAIN events[e]
    /\ events' = [events EXCEPT ![e][t].froms = FromsAfterFrom(@, args)]
    /\ UNCHANGED <<initialState, states, entity, call>>

Before(e, t) ==
    /\ Idle
    /\ e \in DOMAIN events
    /\ t \in DOMAIN events[e]
    /\ CanAddHook(events[e][t].befores)
    /\ events' = [events EXCEPT ![e][t].befores = AppendHook(@)]
    /\ UNCHANGED <<initialState, states, entity, call>>

After(e, t) ==
    /\ Idle
    /\ e \in DOMAIN events
    /\ t \in DOMAIN events[e]
    /\ CanAddHook(events[e][t].afters)
    /\ events' = [events EXCEPT ![e][t].afters = AppendHook(@)]
    /\ UNCHANGED <<initialState, states, entity, call>>

\* The caller writes the entity's state directly (Transition.SetState).
SetState(name) ==
    /\ Idle
    /\ entity' = name
    /\ UNCHANGED <<initialState, states, events, call>>

\* ------------------------------------------------------------ Trigger

\* Variant: an empty state is taken as it is, without the initial state.
StateWasOfNoInit(state) == state

\* stateWas: the entity's state, or initialState when that state is empty.
StateWasOf(state) == IF state = "" THEN initialState ELSE state

\* The lazy initialisation writes initialState to an entity with an empty state.
InitWrites(state) == IF state = "" THEN <<SetEntry(initialState)>> ELSE <<>>

\* Variant: only the first of the froms is compared with stateWas.
ValidFromFirstOnly(transition, stateWas) ==
    \/ Len(transition.froms) = 0
    \/ transition.froms[1] = stateWas

\* Whether a transition is eligible from stateWas: no froms, or stateWas among them.
ValidFrom(transition, stateWas) ==
    \/ Len(transition.froms) = 0
    \/ \E i \in 1..Len(transition.froms) : transition.froms[i] = stateWas

\* The orders in which `range event.transitions` may visit the map's keys.
IterationOrders(transitions) ==
    {o \in [1..Cardinality(DOMAIN transitions) -> DOMAIN transitions] :
        \A i, j \in DOMAIN o : i # j => o[i] # o[j]}

\* matchedTransitions, built in visiting order `order`.
RECURSIVE MatchedTransitions(_, _, _)
MatchedTransitions(transitions, stateWas, order) ==
    IF order = <<>> THEN <<>>
    ELSE LET n    == Len(order)
             rest == MatchedTransitions(transitions, stateWas, SubSeq(order, 1, n - 1))
         IN  IF ValidFrom(transitions[order[n]], stateWas)
             THEN Append(rest, transitions[order[n]])
             ELSE rest

\* The destinations of the transitions in matchedTransitions.
Destinations(matchedTransitions) ==
    {matchedTransitions[i].to : i \in 1..Len(matchedTransitions)}

\* Variant: with several matches, the first one visited is applied.
AppliesAnyMatch(matchedTransitions) == Len(matchedTransitions) >= 1

\* The condition under which Trigger applies a transition.
Applies(matchedTransitions) == Len(matchedTransitions) = 1

\* The hook lists Trigger runs for a state name; none when it is unregistered.
ExitsOf(name) == IF name \in DOMAIN states THEN states[name].exits ELSE <<>>

EntersOf(name) == IF name \in DOMAIN states THEN states[name].enters ELSE <<>>

BeforesOf(c) == events[call[c].name][call[c].to].befores

AftersOf(c) == events[call[c].name][call[c].to].afters

\* Variant: the state write stores stateWas instead of transition.to.
DestinationIsStateWas(c) == call[c].stateWas

\* The state Trigger writes once the before hooks are through.
Destination(c) == call[c].to

\* Variant: the rollback writes transition.to instead of stateWas.
RollbackToDestination(c) == call[c].to

\* Variant: the rollback resets the entity to the machine's initial state.
RollbackToInitial(c) == initialState

\* The state Trigger writes back when an enter or after hook fails.
RollbackState(c) == call[c].stateWas

\* Variant: stateWas becomes initialState, but the entity is not written.
TriggerStartNoWrite(c, name) ==
    /\ call[c].pc = "idle"
    /\ call' = [call EXCEPT ![c] =
            [IdleCall EXCEPT !.pc = "lookup", !.name = name, !.pre = entity,
                             !.stateWas = StateWasOf(entity)]]
    /\ UNCHANGED <<initialState, states, events, entity>>

\* Lines 71-76: read the state, initialise an empty one.
TriggerStart(c, name) ==
    /\ call[c].pc = "idle"
    /\ entity' = StateWasOf(entity)
    /\ call' = [call EXCEPT ![c] =
            [IdleCall EXCEPT !.pc = "lookup", !.name = name, !.pre = entity,
                             !.stateWas = StateWasOf(entity),
                             !.log = InitWrites(entity)]]
    /\ UNCHANGED <<initialState, states, events>>

\* Lines 78-96 and 136-137: look the event up, collect the matching transitions.
TriggerLookup(c) ==
    /\ call[c].pc = "lookup"
    /\ IF call[c].name \in DOMAIN events
       THEN \E order \in IterationOrders(events[call[c].name]) :
              LET matched == MatchedTransitions(events[call[c].name],
                                                call[c].stateWas, order)
              IN  IF Applies(matched)
                  THEN call' = [call EXCEPT ![c].pc = "exit", ![c].idx = 1,
                                            ![c].matched = Destinations(matched),
                                            ![c].to = matched[1].to]
                  ELSE call' = [call EXCEPT ![c].pc = "done",
                                  ![c].matched = Destinations(matched),
                                  ![c].ret = PerformError(call[c].name, call[c].stateWas)]
       ELSE call' = [call EXCEPT ![c].pc = "done",
                       ![c].ret = PerformError(call[c].name, call[c].stateWas)]
    /\ UNCHANGED <<initialState, states, events, entity>>

\* Variant: the exit loop drops a hook's error and goes on to the next hook.
ExitHookIgnoresError(c) ==
    /\ call[c].pc = "exit"
    /\ call[c].idx <= Len(ExitsOf(call[c].stateWas))
    /\ LET h == ExitsOf(call[c].stateWas)[call[c].idx]
       IN  \E ok \in BOOLEAN :
             call' = [call EXCEPT
                ![c].log = Append(@, HookEntry("exit", call[c].stateWas, h, ok)),
                ![c].idx = @ + 1]
    /\ UNCHANGED <<initialState, states, events, entity>>

\* Variant: the exit loop runs the exit hooks of the destination state.
ExitHookOfDestination(c) ==
    /\ call[c].pc = "exit"
    /\ call[c].idx <= Len(ExitsOf(call[c].to))
    /\ LET h == ExitsOf(call[c].to)[call[c].idx]
       IN  \E ok \in BOOLEAN :
             call' = [call EXCEPT
                ![c].log = Append(@, HookEntry("exit", call[c].to, h, ok)),
                ![c].idx = IF ok THEN @ + 1 ELSE @,
                ![c].pc  = IF ok THEN @ ELSE "done",
                ![c].ret = IF ok THEN @ ELSE HookError("exit", call[c].to, h)]
    /\ UNCHANGED <<initialState, states, events, entity>>

\* Lines 99-105: one exit hook of the state named stateWas.
ExitHook(c) ==
    /\ call[c].pc = "exit"
    /\ call[c].idx <= Len(ExitsOf(call[c].stateWas))
    /\ LET h == ExitsOf(call[c].stateWas)[call[c].idx]
       IN  \E ok \in BOOLEAN :
             call' = [call EXCEPT
                ![c].log = Append(@, HookEntry("exit", call[c].stateWas, h, ok)),
                ![c].idx = IF ok THEN @ + 1 ELSE @,
                ![c].pc  = IF ok THEN @ ELSE "done",
                ![c].ret = IF ok THEN @ ELSE HookError("exit", call[c].stateWas, h)]
    /\ UNCHANGED <<initialState, states, events, entity>>

\* Variant: looking up stateWas registers it as a State when it was not.
ExitEndCreatesState(c) ==
    /\ call[c].pc = "exit"
    /\ call[c].idx > Len(ExitsOf(call[c].stateWas))
    /\ call' = [call EXCEPT ![c].pc = "before", ![c].idx = 1]
    /\ states' = StatesAfterState(call[c].stateWas)
    /\ UNCHANGED <<initialState, events, entity>>

\* The exit loop is through (or stateWas is no registered State).
ExitEnd(c) ==
    /\ call[c].pc = "exit"
    /\ call[c].idx > Len(ExitsOf(call[c].stateWas))
    /\ call' = [call EXCEPT ![c].pc = "before", ![c].idx = 1]
    /\ UNCHANGED <<initialState, states, events, entity>>

\* Lines 108-112: one before hook of the matched transition.
BeforeHook(c) ==
    /\ call[c].pc = "before"
    /\ call[c].idx <= Len(BeforesOf(c))
    /\ LET h == BeforesOf(c)[call[c].idx]
       IN  \E ok \in BOOLEAN :
             call' = [call EXCEPT
                ![c].log = Append(@, HookEntry("before", call[c].to, h, ok)),
                ![c].idx = IF ok THEN @ + 1 ELSE @,
                ![c].pc  = IF ok THEN @ ELSE "done",
                ![c].ret = IF ok THEN @ ELSE HookError("before", call[c].to, h)]
    /\ UNCHANGED <<initialState, states, events, entity>>

\* Variant: the enter hooks start without the state having been written.
BeforeEndNoWrite(c) ==
    /\ call[c].pc = "before"
    /\ call[c].idx > Len(BeforesOf(c))
    /\ call' = [call EXCEPT ![c].pc = "enter", ![c].idx = 1]
    /\ UNCHANGED <<initialState, states, events, entity>>

\* Line 114: the before loop is through, value.SetState(transition.to).
BeforeEnd(c) ==
    /\ call[c].pc = "before"
    /\ call[c].idx > Len(BeforesOf(c))
    /\ entity' = Destination(c)
    /\ call' = [call EXCEPT ![c].pc = "enter", ![c].idx = 1,
                            ![c].log = Append(@, SetEntry(Destination(c)))]
    /\ UNCHANGED <<initialState, states, events>>

\* Variant: a failing enter hook returns its error without the rollback.
EnterHookNoRollback(c) ==
    /\ call[c].pc = "enter"
    /\ call[c].idx <= Len(EntersOf(call[c].to))
    /\ LET h == EntersOf(call[c].to)[call[c].idx]
       IN  \E ok \in BOOLEAN :
             call' = [call EXCEPT
                ![c].log = Append(@, HookEntry("enter", call[c].to, h, ok)),
                ![c].idx = IF ok THEN @ + 1 ELSE @,
                ![c].pc  = IF ok THEN @ ELSE "done",
                ![c].ret = IF ok THEN @ ELSE HookError("enter", call[c].to, h)]
    /\ UNCHANGED <<initialState, states, events, entity>>

\* Lines 117-124: one enter hook of the destination state; roll back when it fails.
EnterHook(c) ==
    /\ call[c].pc = "enter"
    /\ call[c].idx <= Len(EntersOf(call[c].to))
    /\ LET h == EntersOf(call[c].to)[call[c].idx]
       IN  \E ok \in BOOLEAN :
             /\ entity' = IF ok THEN entity ELSE RollbackState(c)
             /\ call' = [call EXCEPT
                  ![c].log = IF ok
                             THEN Append(@, HookEntry("enter", call[c].to, h, ok))
                             ELSE Append(Append(@, HookEntry("enter", call[c].to, h, ok)),
                                         SetEntry(RollbackState(c))),
                  ![c].idx = IF ok THEN @ + 1 ELSE @,
                  ![c].pc  = IF ok THEN @ ELSE "done",
                  ![c].ret = IF ok THEN @ ELSE HookError("enter", call[c].to, h)]
    /\ UNCHANGED <<initialState, states, events>>

\* Variant: the rollback is applied when the enter loop ends, error or not.
EnterEndRollsBack(c) ==
    /\ call[c].pc = "enter"
    /\ call[c].idx > Len(EntersOf(call[c].to))
    /\ entity' = RollbackState(c)
    /\ call' = [call EXCEPT ![c].pc = "after", ![c].idx = 1,
                            ![c].log = Append(@, SetEntry(RollbackState(c)))]
    /\ UNCHANGED <<initialState, states, events>>

EnterEnd(c) ==
    /\ call[c].pc = "enter"
    /\ call[c].idx > Len(EntersOf(call[c].to))
    /\ call' = [call EXCEPT ![c].pc = "after", ![c].idx = 1]
    /\ UNCHANGED <<initialState, states, events, entity>>

\* Variant: a failing after hook returns its error without the rollback.
AfterHookNoRollback(c) ==
    /\ call[c].pc = "after"
    /\ call[c].idx <= Len(AftersOf(c))
    /\ LET h == AftersOf(c)[call[c].idx]
       IN  \E ok \in BOOLEAN :
             call' = [call EXCEPT
                ![c].log = Append(@, HookEntry("after", call[c].to, h, ok)),
                ![c].idx = IF ok THEN @ + 1 ELSE @,
                ![c].pc  = IF ok THEN @ ELSE "done",
                ![c].ret = IF ok THEN @ ELSE HookError("after", call[c].to, h)]
    /\ UNCHANGED <<initialState, states, events, entity>>

\* Lines 127-132: one after hook of the matched transition; roll back when it fails.
AfterHook(c) ==
    /\ call[c].pc = "after"
    /\ call[c].idx <= Len(AftersOf(c))
    /\ LET h == AftersOf(c)[call[c].idx]
       IN  \E ok \in BOOLEAN :
             /\ entity' = IF ok THEN entity ELSE RollbackState(c)
             /\ call' = [call EXCEPT
                  ![c].log = IF ok
                             THEN Append(@, HookEntry("after", call[c].to, h, ok))
                             ELSE Append(Append(@, HookEntry("after", call[c].to, h, ok)),
                                         SetEntry(RollbackState(c))),
                  ![c].idx = IF ok THEN @ + 1 ELSE @,
                  ![c].pc  = IF ok THEN @ ELSE "done",
                  ![c].ret = IF ok THEN @ ELSE HookError("after", call[c].to, h)]
    /\ UNCHANGED <<initialState, states, events>>

\* Line 134: every hook succeeded, return nil.
AfterEnd(c) ==
    /\ call[c].pc = "after"
    /\ call[c].idx > Len(AftersOf(c))
    /\ call' = [call EXCEPT ![c].pc = "done", ![c].ret = Nil]
    /\ UNCHANGED <<initialState, states, events, entity>>

\* Trigger has returned; the caller takes the result and is free to call again.
TriggerReturn(c) ==
    /\ call[c].pc = "done"
    /\ call' = [call EXCEPT ![c] = IdleCall]
    /\ UNCHANGED <<initialState, states, events, entity>>

\* ------------------------------------------------------- specification

\* After New(): empty registries, no initial state; a fresh entity.
Init ==
    /\ initialState = ""
    /\ states = <<>>
    /\ events = <<>>
    /\ entity = ""
    /\ call = [c \in Callers |-> IdleCall]

Define ==
    \/ \E name \in InitialNames : Initial(name)
    \/ \E name \in StateNames : State(name)
    \/ \E name \in StateNames : Enter(name)
    \/ \E name \in StateNames : Exit(name)
    \/ \E name \in EventNames : Event(name)
    \/ \E e \in EventNames, name \in StateNames : To(e, name)
    \/ \E e \in EventNames, t \in StateNames, args \in FromArgs : From(e, t, args)
    \/ \E e \in EventNames, t \in StateNames : Before(e, t)
    \/ \E e \in EventNames, t \in StateNames : After(e, t)

TriggerStep(c) ==
    \/ TriggerLookup(c)
    \/ ExitHook(c)
    \/ ExitEnd(c)
    \/ BeforeHook(c)
    \/ BeforeEnd(c)
    \/ EnterHook(c)
    \/ EnterEnd(c)
    \/ AfterHook(c)
    \/ AfterEnd(c)
    \/ TriggerReturn(c)

\* One Trigger at a time, as the engine assumes.
Next ==
    \/ Define
    \/ \E name \in StateNames \cup {""} : SetState(name)
    \/ \E c \in SeqCallers, name \in TriggerNames : Idle /\ TriggerStart(c, name)
    \/ \E c \in SeqCallers : TriggerStep(c)

Spec == Init /\ [][Next]_vars

\* ------------------------------------------- two callers, one entity

\* A list of n hooks, appended one after the other.
HooksAppended(n) == [i \in 1..n |-> i]

\* The machines two callers share: built, before any Trigger, by
\*   Initial("draft"); State("draft").Exit(..); State("checkout").Enter(..);
\*   Event("checkout").To("checkout").From("draft").Before(..).After(..);
\*   Event("checkout").To("draft").From("checkout")
\* with up to MaxConcurrentHooks hooks in each of the four lists.
InitConcurrent ==
    /\ initialState = "draft"
    /\ \E nx, ne \in 0..MaxConcurrentHooks :
          states = [s \in {"draft", "checkout"} |->
                      IF s = "draft"
                      THEN [NewState EXCEPT !.exits = HooksAppended(nx)]
                      ELSE [NewState EXCEPT !.enters = HooksAppended(ne)]]
    /\ \E nb, na \in 0..MaxConcurrentHooks :
          events = [e \in {"checkout"} |->
                      [t \in {"checkout", "draft"} |->
                          IF t = "checkout"
                          THEN [NewTransition(t) EXCEPT !.froms = <<"draft">>,
                                                        !.befores = HooksAppended(nb),
                                                        !.afters = HooksAppended(na)]
                          ELSE [NewTransition(t) EXCEPT !.froms = <<"checkout">>]]]
    /\ entity = ""
    /\ call = [c \in Callers |-> IdleCall]

\* No call has ended without its caller having taken the result.
NoneReturning == \A c \in Callers : call[c].pc # "done"

\* The engine has no lock: a caller may start Trigger while another call on
\* the same entity is between two of its steps.
NextConcurrent ==
    \/ \E name \in StateNames \cup {""} : SetState(name)
    \/ \E c \in Callers, name \in TriggerNames : NoneReturning /\ TriggerStart(c, name)
    \/ \E c \in Callers : TriggerStep(c)

SpecConcurrent == InitConcurrent /\ [][NextConcurrent]_vars

\* ------------------------------------------------- vocabulary of the claims

Phases == {"exit", "before", "enter", "after"}

Done(c) == call[c].pc = "done"

\* stateWas as the claims define it: the state at the start of the call, or
\* initialState when that state was empty.
StartState(c) == IF call[c].pre = "" THEN initialState ELSE call[c].pre

Range(seq) == {seq[i] : i \in 1..Len(seq)}

\* The transitions of a registered event that are eligible from state s.
Eligible(e, s) ==
    {t \in DOMAIN events[e] : events[e][t].froms = <<>> \/ s \in Range(events[e][t].froms)}

Registered(c) == call[c].name \in DOMAIN events

OneMatch(c) == Registered(c) /\ Cardinality(Eligible(call[c].name, StartState(c))) = 1

TheMatch(c) == CHOOSE t \in Eligible(call[c].name, StartState(c)) : TRUE

\* Positions of the log that are hook invocations, of one list or of any.
HookRuns(c) == {i \in 1..Len(call[c].log) : call[c].log[i].op \in Phases}

Runs(c, kind) == {i \in 1..Len(call[c].log) : call[c].log[i].op = kind}

Failed(c, kind) == {i \in Runs(c, kind) : ~call[c].log[i].ok}

AllHooksOk(c) == \A i \in HookRuns(c) : call[c].log[i].ok

\* Positions of the log that are SetState calls.
Sets(c) == {i \in 1..Len(call[c].log) : call[c].log[i].op = "set"}

\* The lazy initialisation's write: the first entry, when the state was empty.
InitSets(c) == {i \in Sets(c) : i = 1 /\ call[c].pre = ""}

\* A rollback: the write that follows a failed hook.
RollbackSets(c) ==
    {i \in Sets(c) : i > 1 /\ call[c].log[i - 1].op \in Phases /\ ~call[c].log[i - 1].ok}

\* The writes of the transition's destination (step 8).
StateWrites(c) == (Sets(c) \ InitSets(c)) \ RollbackSets(c)

IsError(e) == e.type # "nil"

\* ------------------------------------------------------------------ C1

\* C1: when the event is registered, exactly one of its transitions matches
\* stateWas and every hook that ran returned nil, Trigger returns nil and the
\* entity's state on return is that transition's destination, registered with
\* State() or not.
C1_SuccessEndsAtTo ==
    \A c \in Callers :
        (Done(c) /\ OneMatch(c) /\ AllHooksOk(c)) =>
            /\ call[c].ret = Nil
            /\ entity = TheMatch(c)

\* A fresh entity moved to a destination that is no registered State, from a
\* stateWas that is none either, with hooks run on the way.
C1_Witness ==
    \E c \in Callers :
        /\ Done(c) /\ OneMatch(c) /\ AllHooksOk(c)
        /\ call[c].pre = ""
        /\ call[c].ret = Nil
        /\ TheMatch(c) \notin DOMAIN states
        /\ StartState(c) \notin DOMAIN states
        /\ StartState(c) # TheMatch(c)
        /\ Cardinality(HookRuns(c)) >= 2

\* ------------------------------------------------------------------ C2

\* C2: when an enter hook of the destination state fails, Trigger returns an
\* error, the entity's state is stateWas again, no further enter hook and no
\* after hook runs.
C2_EnterFailureRollsBack ==
    \A c \in Callers :
        \A i \in Failed(c, "enter") :
            /\ Done(c)
            /\ IsError(call[c].ret)
            /\ entity = StartState(c)
            /\ \A j \in HookRuns(c) : j <= i
            /\ Runs(c, "after") = {}

\* The first of two enter hooks failed after the state had moved, on a
\* transition that has an after hook.
C2_Witness ==
    \E c \in Callers :
        /\ Failed(c, "enter") # {}
        /\ call[c].to # call[c].stateWas
        /\ call[c].log[Len(call[c].log) - 1].h = 1
        /\ Len(EntersOf(call[c].to)) = 2
        /\ Len(AftersOf(c)) >= 1
        /\ entity = call[c].stateWas

\* ------------------------------------------------------------------ C3

\* C3: when an after hook of the matched transition fails, Trigger returns an
\* error, the state written at step 8 is rolled back to stateWas, and the
\* remaining after hooks do not run.
C3_AfterFailureRollsBack ==
    \A c \in Callers :
        \A i \in Failed(c, "after") :
            /\ Done(c)
            /\ IsError(call[c].ret)
            /\ StateWrites(c) # {}
            /\ entity = StartState(c)
            /\ \A j \in HookRuns(c) : j <= i

\* The first of two after hooks failed, after an enter hook had succeeded.
C3_Witness ==
    \E c \in Callers :
        /\ Failed(c, "after") # {}
        /\ call[c].to # call[c].stateWas
        /\ call[c].log[Len(call[c].log) - 1].h = 1
        /\ Len(AftersOf(c)) = 2
        /\ Runs(c, "enter") # {}
        /\ entity = call[c].stateWas

\* ------------------------------------------------------------------ C4

\* C4: when an exit hook or a before hook fails, Trigger returns an error, the
\* destination was never written (the state stays at stateWas throughout),
\* and no later hook runs.
C4_ExitBeforeFailureNeverWrites ==
    \A c \in Callers :
        \A i \in Failed(c, "exit") \cup Failed(c, "before") :
            /\ Done(c)
            /\ IsError(call[c].ret)
            /\ Sets(c) \subseteq InitSets(c)
            /\ \A j \in HookRuns(c) : call[c].log[j].saw = StartState(c)
            /\ entity = StartState(c)
            /\ \A j \in HookRuns(c) : j <= i
            /\ Runs(c, "enter") = {} /\ Runs(c, "after") = {}
            /\ call[c].log[i].op = "exit" => Runs(c, "before") = {}

\* A before hook failed after an exit hook had run, on a transition whose
\* destination has an enter hook and differs from stateWas.
C4_Witness ==
    \E c \in Callers :
        /\ Failed(c, "before") # {}
        /\ Runs(c, "exit") # {}
        /\ call[c].to # call[c].stateWas
        /\ Len(EntersOf(call[c].to)) >= 1

\* ------------------------------------------------------------------ C5

\* Whether the call got past the matching and applies a transition.
Applied(c) == call[c].pc \in Phases \/ (Done(c) /\ call[c].ret.type # "perform")

\* The ordinals of the hooks of list `kind` that have run.
Ordinals(c, kind) == {call[c].log[i].h : i \in Runs(c, kind)}

ExitCount(s) == IF s \in DOMAIN states THEN Len(states[s].exits) ELSE 0

EnterCount(s) == IF s \in DOMAIN states THEN Len(states[s].enters) ELSE 0

Precede(I, J) == \A i \in I, j \in J : i < j

\* C5: a call that applies a transition runs all exit hooks of stateWas, then
\* all before hooks, then the single write SetState(to), then all enter hooks
\* of `to`, then all after hooks; exit and before hooks see stateWas, enter
\* and after hooks see `to`.
C5_StrictOrder ==
    \A c \in Callers :
        LET log == call[c].log
            was == StartState(c)
            to  == call[c].to
            tr  == events[call[c].name][to]
        IN  Applied(c) =>
            /\ Cardinality(StateWrites(c)) <= 1
            /\ call[c].pc \in {"enter", "after"} => StateWrites(c) # {}
            /\ (Done(c) /\ call[c].ret = Nil) => StateWrites(c) # {}
            /\ Precede(Runs(c, "exit"), Runs(c, "before"))
            /\ Precede(Runs(c, "exit") \cup Runs(c, "before"), StateWrites(c))
            /\ Precede(StateWrites(c), Runs(c, "enter") \cup Runs(c, "after"))
            /\ Precede(Runs(c, "enter"), Runs(c, "after"))
            /\ (Runs(c, "enter") \cup Runs(c, "after")) # {} => StateWrites(c) # {}
            /\ \A i \in Runs(c, "exit") \cup Runs(c, "before") : log[i].saw = was
            /\ \A i \in Runs(c, "enter") \cup Runs(c, "after") : log[i].saw = to
            /\ \A i \in Runs(c, "exit") : log[i].owner = was
            /\ \A i \in Runs(c, "enter") : log[i].owner = to
            /\ \A w \in StateWrites(c) :
                  /\ log[w].saw = was /\ log[w].val = to
                  /\ Ordinals(c, "exit") = 1..ExitCount(was)
                  /\ Ordinals(c, "before") = 1..Len(tr.befores)
            /\ Runs(c, "after") # {} => Ordinals(c, "enter") = 1..EnterCount(to)
            /\ (Done(c) /\ call[c].ret = Nil) =>
                  /\ Ordinals(c, "enter") = 1..EnterCount(to)
                  /\ Ordinals(c, "after") = 1..Len(tr.afters)
                  /\ entity = to

\* A successful call from one state to another that ran an exit hook, a
\* before hook and an enter hook.
C5_Witness ==
    \E c \in Callers :
        /\ Done(c) /\ call[c].ret = Nil
        /\ call[c].to # call[c].stateWas
        /\ Runs(c, "exit") # {}
        /\ Runs(c, "before") # {}
        /\ Runs(c, "enter") # {}

\* ------------------------------------------------------------------ C6

NoOrAmbiguousMatch(c) ==
    Registered(c) /\ Cardinality(Eligible(call[c].name, StartState(c))) # 1

\* C6 as stated: with zero or several matching transitions Trigger returns an
\* error, runs no hook and leaves the entity's state as it was before the call.
C6_Original ==
    \A c \in Callers :
        (Done(c) /\ NoOrAmbiguousMatch(c)) =>
            /\ IsError(call[c].ret)
            /\ HookRuns(c) = {}
            /\ entity = call[c].pre

\* C6, amended: with zero or several matching transitions Trigger returns the
\* one error made of the event name and stateWas, runs no hook and leaves the
\* entity's state at stateWas: unchanged when it was non-empty, initialState
\* when it was empty.
C6_NoOrAmbiguousMatchFails ==
    \A c \in Callers :
        (call[c].pc \notin {"idle", "lookup"} /\ NoOrAmbiguousMatch(c)) =>
            /\ Done(c)
            /\ call[c].ret = [type |-> "perform", name |-> call[c].name,
                              state |-> StartState(c), n |-> 0]
            /\ HookRuns(c) = {}
            /\ Sets(c) \subseteq InitSets(c)
            /\ entity = StartState(c)
            /\ call[c].pre # "" => entity = call[c].pre

\* Two transitions were eligible from a state whose exit hook could have run.
C6_Witness ==
    \E c \in Callers :
        /\ Done(c) /\ Registered(c)
        /\ Cardinality(Eligible(call[c].name, StartState(c))) = 2
        /\ call[c].pre # ""
        /\ ExitCount(StartState(c)) >= 1

\* ------------------------------------------------------------------ C7

\* C7 as stated: whenever Trigger returns, the entity's state is not empty.
C7_Original ==
    \A c \in Callers : Done(c) => entity # ""

\* C7, amended: on a machine whose initialState is not empty (and whose
\* destinations are not empty), the entity's state is not empty from the
\* initialisation at the start of Trigger to its return.
C7_NeverEmptyWithInitial ==
    \A c \in Callers :
        (call[c].pc # "idle" /\ initialState # "") => entity # ""

\* A call on an entity with an empty state failed, on a machine with an
\* initial state.
C7_Witness ==
    \E c \in Callers :
        /\ Done(c) /\ IsError(call[c].ret)
        /\ call[c].pre = ""
        /\ initialState # ""
        /\ entity # ""

\* ------------------------------------------------------------------ C8

\* C8 as stated: an unregistered event name fails, runs no hook, and the
\* state after the call equals the state before the call.
C8_Original ==
    \A c \in Callers :
        (Done(c) /\ ~Registered(c)) =>
            /\ IsError(call[c].ret)
            /\ HookRuns(c) = {}
            /\ entity = call[c].pre

\* C8, amended: an unregistered event name fails and runs no hook; the state
\* after the call equals the state before the call when that was not empty,
\* and is initialState when it was empty.
C8_UnknownEventFails ==
    \A c \in Callers :
        (call[c].pc \notin {"idle", "lookup"} /\ ~Registered(c)) =>
            /\ Done(c)
            /\ IsError(call[c].ret)
            /\ HookRuns(c) = {}
            /\ entity = StartState(c)
            /\ call[c].pre # "" => entity = call[c].pre

\* An unregistered name was triggered on a fresh entity while another event,
\* with a transition, is registered.
C8_Witness ==
    \E c \in Callers :
        /\ Done(c) /\ ~Registered(c)
        /\ call[c].pre = ""
        /\ initialState # ""
        /\ entity = initialState
        /\ \E e \in DOMAIN events : DOMAIN events[e] # {}

\* ------------------------------------------------------------------ C9

\* C9: on an entity whose state is empty, Trigger takes initialState as
\* stateWas for matching, exit hooks and rollback, writes it to the entity
\* before the event lookup, and keeps that write however the call fails.
C9_LazyInitialisation ==
    \A c \in Callers :
        (call[c].pc # "idle" /\ call[c].pre = "") =>
            /\ call[c].stateWas = initialState
            /\ Len(call[c].log) >= 1
            /\ call[c].log[1].op = "set" /\ call[c].log[1].val = initialState
            /\ call[c].pc = "lookup" => entity = initialState
            /\ (call[c].pc \notin {"idle", "lookup"} /\ Registered(c)) =>
                  call[c].matched = Eligible(call[c].name, initialState)
            /\ \A i \in Runs(c, "exit") : call[c].log[i].owner = initialState
            /\ \A i \in RollbackSets(c) : call[c].log[i].val = initialState
            /\ (Done(c) /\ IsError(call[c].ret)) => entity = initialState

\* An enter hook failed in a call on a fresh entity: the rollback went to
\* the initial state.
C9_Witness ==
    \E c \in Callers :
        /\ Done(c) /\ call[c].pre = ""
        /\ call[c].ret.type = "enter"
        /\ initialState # ""
        /\ call[c].to # initialState
        /\ entity = initialState

\* ----------------------------------------------------------------- C10

DisjointFroms(e) ==
    /\ \A t \in DOMAIN events[e] : events[e][t].froms # <<>>
    /\ \A t, u \in DOMAIN events[e] :
          t # u => Range(events[e][t].froms) \cap Range(events[e][u].froms) = {}

\* C10: a transition is in the matching set exactly when its froms is empty
\* or contains stateWas.  With non-empty, pairwise disjoint froms, Trigger
\* from a state listed in one of them moves the entity to that transition's
\* destination; a wildcard transition plus one that lists s fails from s.
C10_MatchingSet ==
    \A c \in Callers :
        (call[c].pc \notin {"idle", "lookup"} /\ Registered(c)) =>
            LET e == call[c].name
                s == StartState(c)
            IN  /\ call[c].matched = Eligible(e, s)
                /\ Applied(c) <=> Cardinality(Eligible(e, s)) = 1
                /\ Applied(c) => call[c].to \in Eligible(e, s)
                /\ (/\ DisjointFroms(e)
                    /\ \E t \in DOMAIN events[e] : s \in Range(events[e][t].froms)
                    /\ Done(c) /\ AllHooksOk(c)) =>
                        /\ call[c].ret = Nil
                        /\ s \in Range(events[e][entity].froms)
                /\ (\E t, u \in DOMAIN events[e] :
                        /\ t # u
                        /\ events[e][t].froms = <<>>
                        /\ s \in Range(events[e][u].froms)) =>
                        /\ Done(c)
                        /\ call[c].ret.type = "perform"

\* An event with two transitions of disjoint, non-empty froms moved the
\* entity from the state one of them lists to that transition's destination.
C10_Witness ==
    \E c \in Callers :
        /\ Done(c) /\ Registered(c) /\ call[c].ret = Nil
        /\ Cardinality(DOMAIN events[call[c].name]) = 2
        /\ DisjointFroms(call[c].name)
        /\ StartState(c) \in Range(events[call[c].name][call[c].to].froms)
        /\ call[c].pre # ""
        /\ entity = call[c].to

\* ----------------------------------------------------------------- C11

\* The error value of the hook invoked at position i of the log.
ErrorOfRun(c, i) ==
    [type |-> call[c].log[i].op, name |-> call[c].log[i].owner,
     state |-> "", n |-> call[c].log[i].h]

\* C11: when a hook failed, the error Trigger returns is the error of the
\* first (and only) failing hook: not the engine's own error, not the error
\* of another hook.
C11_ReturnsFirstHookError ==
    \A c \in Callers :
        \A i \in HookRuns(c) :
            ~call[c].log[i].ok =>
                /\ Done(c)
                /\ call[c].ret = ErrorOfRun(c, i)
                /\ call[c].ret.type # "perform"
                /\ \A j \in HookRuns(c) : j # i => call[c].log[j].ok
                /\ \A j \in HookRuns(c) : j # i => call[c].ret # ErrorOfRun(c, j)

\* The second hook of a list failed after the first one, and a hook of
\* another list, had returned nil.
C11_Witness ==
    \E c \in Callers :
        \E i \in HookRuns(c) :
            /\ ~call[c].log[i].ok
            /\ call[c].log[i].h = 2
            /\ Cardinality(HookRuns(c)) = 3
            /\ Done(c)

\* ----------------------------------------------------------------- C12

IsPrefix(a, b) == Len(a) <= Len(b) /\ SubSeq(b, 1, Len(a)) = a

\* Every transition an event holds is the one stored under its destination.
KeyedByDestination ==
    \A e \in DOMAIN events : \A t \in DOMAIN events[e] : events[e][t].to = t

\* A step keeps every transition, with the froms and hooks it had.
TransitionsKept ==
    \A e \in DOMAIN events :
        /\ e \in DOMAIN events'
        /\ \A t \in DOMAIN events[e] :
              /\ t \in DOMAIN events'[e]
              /\ IsPrefix(events[e][t].froms, events'[e][t].froms)
              /\ IsPrefix(events[e][t].befores, events'[e][t].befores)
              /\ IsPrefix(events[e][t].afters, events'[e][t].afters)

\* To on a destination the event already has changes nothing.
RepeatedToIsNoOp ==
    \A e \in EventNames, t \in StateNames :
        (To(e, t) /\ t \in DOMAIN events[e]) => UNCHANGED events

\* C12: To is get-or-create.  An event holds one transition per destination;
\* a repeated To on a used destination returns the existing transition, so
\* froms and hooks accumulate on it and no second transition appears.
C12_ToIsGetOrCreate ==
    /\ []KeyedByDestination
    /\ [][UNCHANGED events \/ (TransitionsKept /\ RepeatedToIsNoOp)]_vars

\* A transition that carries froms and hooks, where To can be repeated.
C12_Witness ==
    /\ Idle
    /\ \E e \in DOMAIN events : \E t \in DOMAIN events[e] :
          /\ Len(events[e][t].froms) = 2
          /\ events[e][t].befores # <<>>
          /\ events[e][t].afters # <<>>

\* ----------------------------------------------------------------- C13

\* A step keeps every registered State with its hooks, and every Event
\* with its transitions.
RegistriesKept ==
    /\ \A s \in DOMAIN states :
          /\ s \in DOMAIN states'
          /\ IsPrefix(states[s].enters, states'[s].enters)
          /\ IsPrefix(states[s].exits, states'[s].exits)
    /\ \A e \in DOMAIN events :
          /\ e \in DOMAIN events'
          /\ DOMAIN events[e] \subseteq DOMAIN events'[e]

\* State or Event on a registered name changes nothing.
RepeatedLookupIsNoOp ==
    /\ \A name \in StateNames :
          (State(name) /\ name \in DOMAIN states) => UNCHANGED states
    /\ \A name \in EventNames :
          (Event(name) /\ name \in DOMAIN events) => UNCHANGED events

\* A successful call has run every hook registered so far for the states
\* and the transition it went through.
TriggerUsesRegisteredHooks ==
    \A c \in Callers :
        (Done(c) /\ call[c].ret = Nil) =>
            /\ Ordinals(c, "exit") = 1..ExitCount(StartState(c))
            /\ Ordinals(c, "enter") = 1..EnterCount(entity)
            /\ entity \in DOMAIN events[call[c].name]

\* C13: State(name) and Event(name) called again with the same name return
\* the same object: one entry per name, nothing created, nothing discarded,
\* and the hooks appended through any handle are those Trigger runs.
C13_StateAndEventAreGetOrCreate ==
    /\ []TriggerUsesRegisteredHooks
    /\ [][UNCHANGED <<states, events>> \/ (RegistriesKept /\ RepeatedLookupIsNoOp)]_vars

\* A successful call ran both enter hooks appended, one after the other,
\* to its destination state.
C13_Witness ==
    \E c \in Callers :
        /\ Done(c) /\ call[c].ret = Nil
        /\ entity \in DOMAIN states
        /\ Len(states[entity].enters) = 2
        /\ Ordinals(c, "enter") = {1, 2}

\* ----------------------------------------------------------------- C14

NoDuplicates(seq) == Cardinality(Range(seq)) = Len(seq)

\* No transition lists a name twice.
FromsHaveNoDuplicates ==
    \A e \in DOMAIN events : \A t \in DOMAIN events[e] :
        NoDuplicates(events[e][t].froms)

\* From("a","a","b") then From("b","c") on a fresh transition.
FromExample == FromsAfterFrom(FromsAfterFrom(<<>>, <<"a", "a", "b">>), <<"b", "c">>)

\* What any From call would leave, wherever From can be called: the names
\* the transition had, in place, then the new ones among the names given.
FromAddsItsNames ==
    Idle =>
        \A e \in DOMAIN events : \A t \in DOMAIN events[e] : \A args \in FromArgs :
            LET old == events[e][t].froms
                new == FromsAfterFrom(old, args)
            IN  /\ Range(new) = Range(old) \cup Range(args)
                /\ NoDuplicates(new)
                /\ IsPrefix(old, new)

\* C14: after any sequence of From calls a transition's froms has no
\* duplicate and is, as a set, the union of all names passed in those calls;
\* From("a","a","b") then From("b","c") gives {a, b, c}.
C14_FromsIsUnionWithoutDuplicates ==
    /\ FromsHaveNoDuplicates
    /\ FromAddsItsNames
    /\ NoDuplicates(FromExample)
    /\ Range(FromExample) = {"a", "b", "c"}

\* Both transitions of an event list both state names, each once.
C14_Witness ==
    /\ Idle
    /\ \E e \in DOMAIN events :
          /\ DOMAIN events[e] = StateNames
          /\ \A t \in DOMAIN events[e] :
                Len(events[e][t].froms) = 2 /\ Range(events[e][t].froms) = StateNames

\* ----------------------------------------------------------------- C15

\* C15: rollback is only a state write.  When an enter or after hook fails,
\* the one thing Trigger still does is write stateWas over `to`; no hook
\* follows, the exit hooks that ran are those of stateWas and the enter hooks
\* those of `to`, and no hook that had run is run a second time.
C15_RollbackIsOnlyAStateWrite ==
    \A c \in Callers :
        \A i \in Failed(c, "enter") \cup Failed(c, "after") :
            /\ Len(call[c].log) = i + 1
            /\ call[c].log[i + 1] =
                  [op |-> "set", owner |-> "", h |-> 0, saw |-> call[c].to,
                   val |-> StartState(c), ok |-> TRUE]
            /\ RollbackSets(c) = {i + 1}
            /\ entity = StartState(c)
            /\ \A j \in Runs(c, "exit") : call[c].log[j].owner = StartState(c)
            /\ \A j \in Runs(c, "enter") : call[c].log[j].owner = call[c].to
            /\ \A j, k \in HookRuns(c) :
                  (j # k /\ call[c].log[j].op = call[c].log[k].op) =>
                      call[c].log[j].h # call[c].log[k].h

\* An after hook failed in a call that left a state other than the initial
\* one, had run an exit hook of it, and whose destination has an exit hook too.
C15_Witness ==
    \E c \in Callers :
        /\ Failed(c, "after") # {}
        /\ call[c].to # call[c].stateWas
        /\ call[c].stateWas # initialState
        /\ Runs(c, "exit") # {}
        /\ ExitCount(call[c].to) >= 1
        /\ entity = call[c].stateWas

\* ----------------------------------------------------------------- C16

\* C16: in any call, of any sequence of calls, the exit hooks that run are
\* hooks of the registered State named stateWas and the enter hooks that run
\* are hooks of the registered State named by the matched transition's `to`;
\* unless the two are the same State, a call runs no enter hook of the State
\* it leaves and no exit hook of the State it enters.
C16_HooksBelongToLeftAndEnteredState ==
    \A c \in Callers :
        /\ \A i \in Runs(c, "exit") :
              /\ call[c].log[i].owner = StartState(c)
              /\ StartState(c) \in DOMAIN states
              /\ call[c].log[i].h \in Range(states[StartState(c)].exits)
        /\ \A i \in Runs(c, "enter") :
              /\ OneMatch(c)
              /\ call[c].log[i].owner = TheMatch(c)
              /\ TheMatch(c) \in DOMAIN states
              /\ call[c].log[i].h \in Range(states[TheMatch(c)].enters)
        /\ (Applied(c) /\ call[c].to # StartState(c)) =>
              /\ \A i \in Runs(c, "enter") : call[c].log[i].owner # StartState(c)
              /\ \A i \in Runs(c, "exit") : call[c].log[i].owner # call[c].to

\* A call ran an exit hook of the State it left and an enter hook of the
\* State it entered, where the State left has an enter hook of its own or
\* the State entered an exit hook of its own.
C16_Witness ==
    \E c \in Callers :
        /\ Done(c) /\ call[c].ret = Nil
        /\ call[c].to # StartState(c)
        /\ Runs(c, "exit") # {} /\ Runs(c, "enter") # {}
        /\ EnterCount(StartState(c)) + ExitCount(call[c].to) >= 1

\* ----------------------------------------------------------------- C17

\* The hook list of each kind that applies to a call that matched.
HookList(c, kind) ==
    CASE kind = "exit"   -> ExitsOf(StartState(c))
      [] kind = "before" -> BeforesOf(c)
      [] kind = "enter"  -> EntersOf(call[c].to)
      [] kind = "after"  -> AftersOf(c)

\* A list holds its hooks in the order they were appended.
InAppendOrder(list) == \A k \in 1..Len(list) : list[k] = k

ListsInAppendOrder ==
    /\ \A s \in DOMAIN states :
          InAppendOrder(states[s].enters) /\ InAppendOrder(states[s].exits)
    /\ \A e \in DOMAIN events : \A t \in DOMAIN events[e] :
          InAppendOrder(events[e][t].befores) /\ InAppendOrder(events[e][t].afters)

\* C17: within each hook list Trigger invokes the hooks in the order they
\* were appended, each at most once per call, and the next one only if the
\* one before returned no error; if no hook fails, every hook of the four
\* applicable lists is invoked exactly once.
C17_HooksRunInAppendOrder ==
    /\ ListsInAppendOrder
    /\ \A c \in Callers :
          /\ ~Applied(c) => HookRuns(c) = {}
          /\ \A i, j \in HookRuns(c) : i < j => call[c].log[i].ok
          /\ Applied(c) =>
                \A kind \in Phases :
                    LET runs == Runs(c, kind)
                        list == HookList(c, kind)
                    IN  /\ \A i \in runs :
                              LET k == Cardinality({j \in runs : j <= i})
                              IN  k <= Len(list) /\ call[c].log[i].h = list[k]
                        /\ (Done(c) /\ call[c].ret = Nil) =>
                              Cardinality(runs) = Len(list)

\* A successful call ran the two exit hooks of the State it left, first the
\* one appended first, and an after hook of its transition.
C17_Witness ==
    \E c \in Callers :
        /\ Done(c) /\ call[c].ret = Nil
        /\ Len(HookList(c, "exit")) = 2
        /\ \E i, j \in Runs(c, "exit") :
              i < j /\ call[c].log[i].h = 1 /\ call[c].log[j].h = 2
        /\ Runs(c, "after") # {}

\* ----------------------------------------------------------------- C18

\* C18: Trigger is read-only on the machine.  Every step of a call, whatever
\* the call's outcome, leaves initialState, the registered States with their
\* hook lists and the registered Events with their transitions, froms and
\* hook lists as they were; looking up an unregistered State creates none.
C18_TriggerLeavesMachineUnchanged ==
    [][UNCHANGED call \/ UNCHANGED <<initialState, states, events>>]_vars

\* A call that applied a transition between two names that are not
\* registered States has returned a hook's error.
C18_Witness ==
    \E c \in Callers :
        /\ Done(c)
        /\ call[c].ret.type \in Phases
        /\ call[c].to # StartState(c)
        /\ StartState(c) \notin DOMAIN states
        /\ call[c].to \notin DOMAIN states

\* ----------------------------------------------------------------- C19

\* Throughout a call the entity's state is the state the call started from,
\* initialState in place of an empty one, or the destination of the
\* registered transition the call applies; a call that has returned an error
\* left stateWas, one that has returned nil left `to`.
StateIsStartOrDestination ==
    \A c \in Callers :
        call[c].pc # "idle" =>
            /\ StartState(c) \in {call[c].pre, initialState}
            /\ call[c].stateWas = StartState(c)
            /\ entity \in {StartState(c)} \cup (IF Applied(c) THEN {call[c].to} ELSE {})
            /\ Applied(c) =>
                  /\ Registered(c)
                  /\ call[c].to \in DOMAIN events[call[c].name]
                  /\ events[call[c].name][call[c].to].to = call[c].to
            /\ (Done(c) /\ IsError(call[c].ret)) => entity = StartState(c)
            /\ (Done(c) /\ call[c].ret = Nil) => entity = call[c].to
            /\ (Done(c) /\ entity # StartState(c)) => call[c].ret = Nil

\* Trigger writes the state only within a call; returning writes nothing.
TriggerWritesWithinCall ==
    \/ UNCHANGED call
    \/ UNCHANGED entity
    \/ \E c \in Callers : call'[c] # call[c] /\ call'[c].pc # "idle"

\* C19: hooks not writing the state, over any sequence of sequential calls
\* the entity's state is the state it started from, the machine's
\* initialState or the `to` of a registered transition; a call ends with the
\* state equal to stateWas (every failure) or to the matched transition's
\* `to` (success only), never another value.
C19_StateIsStartInitialOrDestination ==
    /\ []StateIsStartOrDestination
    /\ [][TriggerWritesWithinCall]_vars

\* After the state had left the initial state, a call from there to another
\* state failed in an enter hook and the state is where the call began.
C19_Witness ==
    \E c \in Callers :
        /\ Done(c)
        /\ call[c].ret.type = "enter"
        /\ initialState # ""
        /\ call[c].pre \notin {"", initialState}
        /\ call[c].to # call[c].pre
        /\ entity = call[c].pre

\* ----------------------------------------------------------------- C20

\* What the rest of Trigger takes from matchedTransitions: whether a
\* transition is applied, which one, and the destinations that matched.
LookupOutcome(matchedTransitions) ==
    [applies |-> Applies(matchedTransitions),
     transition |-> IF Applies(matchedTransitions)
                    THEN <<matchedTransitions[1]>> ELSE <<>>,
     destinations |-> Destinations(matchedTransitions)]

\* The outcomes of the lookup a call is about to make, over every order in
\* which the event's transitions can be visited.
LookupOutcomes(c) ==
    {LookupOutcome(MatchedTransitions(events[call[c].name], call[c].stateWas, order)) :
        order \in IterationOrders(events[call[c].name])}

\* C20: the outcome of Trigger does not depend on the order in which the
\* event's transitions are visited: every visiting order gives the lookup
\* the same result, and the transition a call applies is the one eligible
\* transition of the event, a property of the configuration and stateWas.
C20_OutcomeIndependentOfIterationOrder ==
    \A c \in Callers :
        /\ (call[c].pc = "lookup" /\ Registered(c)) =>
              /\ call[c].stateWas = StartState(c)
              /\ Cardinality(LookupOutcomes(c)) = 1
        /\ (call[c].pc \notin {"idle", "lookup"} /\ Registered(c)) =>
              /\ Applied(c) <=> OneMatch(c)
              /\ Applied(c) => call[c].to = TheMatch(c)
              /\ ~Applied(c) =>
                    /\ HookRuns(c) = {}
                    /\ Sets(c) \subseteq InitSets(c)
                    /\ entity = StartState(c)

\* A call is about to look up an event with two transitions, which can be
\* visited in either order, of which one is eligible.
C20_Witness ==
    \E c \in Callers :
        /\ call[c].pc = "lookup"
        /\ Registered(c)
        /\ Cardinality(IterationOrders(events[call[c].name])) = 2
        /\ Cardinality(Eligible(call[c].name, call[c].stateWas)) = 1

\* ----------------------------------------------------------------- C21

\* The entity's state is where call c, taken alone, has put it: stateWas up
\* to the state write and after a failure, `to` from the write on and
\* after a success.
Consistent(c) ==
    CASE call[c].pc = "idle" -> TRUE
      [] call[c].pc \in {"lookup", "exit", "before"} -> entity = call[c].stateWas
      [] call[c].pc \in {"enter", "after"} -> entity = call[c].to
      [] call[c].pc = "done" ->
            entity = (IF call[c].ret = Nil THEN call[c].to ELSE call[c].stateWas)

\* A call that returned nil while the entity's state is not its `to`.
SucceededElsewhere(c) ==
    /\ Done(c) /\ call[c].ret = Nil
    /\ entity # call[c].to

\* Only a step of another call in progress takes the state away from where
\* a call has put it.
OnlyAnotherCallInterferes ==
    \A c \in Callers :
        (Consistent(c) /\ ~Consistent(c)') =>
            \E d \in Callers \ {c} :
                /\ call[c].pc # "idle" /\ call[d].pc # "idle"
                /\ call'[d] # call[d]
                /\ call'[c] = call[c]

\* C21: Trigger is not atomic.  When two calls on one entity interleave, a
\* call can return nil while the entity's state is not its `to`, the other
\* call's state write or rollback having overwritten it; the state leaves
\* the value a call has given it only by a step of another call in
\* progress, so with one call at a time this cannot happen.
C21_NotAtomicWithoutSerialisation == [][OnlyAnotherCallInterferes]_vars

\* A call returned nil after its enter hook had succeeded, and the state is
\* not its `to` but the stateWas that the other call, whose enter hook
\* failed, rolled back to.
C21_Witness ==
    \E c, d \in Callers :
        /\ c # d
        /\ SucceededElsewhere(c)
        /\ Runs(c, "enter") # {}
        /\ Done(d) /\ call[d].ret.type = "enter"
        /\ RollbackSets(d) # {}
        /\ entity = call[d].stateWas

====
